---- MODULE Spec2Model ----
(***************************************************************************)
(* Model of streamlit_app.py: one run of main() is the linear pipeline     *)
(* load -> filter rows by is_date_format -> to_datetime -> date range ->   *)
(* empty check -> table -> agent chart/statistics -> call chart/statistics *)
(* with a single try/except around everything after check_openpyxl().      *)
(* Streamlit re-executes main() from the top on every interaction.         *)
(*                                                                         *)
(* Text is a sequence of one-character strings.  Numbers that pandas keeps *)
(* as floats are kept exactly: a value is NaN, +inf, or the real number    *)
(* num/den + sgn * sqrt(rnum/rden) with integer num, den, rnum, rden.      *)
(* Floating-point rounding is not modelled.                                *)
(***************************************************************************)
EXTENDS Integers, Sequences, FiniteSets, TLC

VARIABLES
    openpyxl,       \* what find_spec("openpyxl") gave in this run
    file,           \* peaks.xlsx as this run read it: exists, columns, rows
    pc,             \* position of the run inside main()
    exc,            \* exception raised inside the try block ("none" if none)
    page,           \* elements sent to the page so far, in order
    df,             \* the local DataFrame: columns and rows
    min_date,       \* local min_date (text), <<>> while unset
    max_date,       \* local max_date (text), <<>> while unset
    agent_panel,    \* what the Agent Peak Statistics section displays
    call_panels,    \* the call statistics blocks displayed so far
    ratio_panel     \* the Call Type Distribution block

vars == <<openpyxl, file, pc, exc, page, df, min_date, max_date,
          agent_panel, call_panels, ratio_panel>>

----------------------------------------------------------------------------
(* Bounds of the model *)

\* Most rows of a spreadsheet with the full schema (error-handling inputs)
MaxRows == 3
\* Most rows of a spreadsheet that lacks a column
MaxRowsPartial == 1
\* Statistics inputs: most rows, and the largest base value of a row
MaxStatRows == 4
MaxStatVal == 3
\* Ratio inputs: most rows, largest total, largest inbound/outbound part
MaxRatioRows == 2
MaxTotal == 1
MaxPart == 1
\* Validator inputs: most characters put before or after a date text
MaxAffix == 1

----------------------------------------------------------------------------
(* Text *)

Digits == {"0", "1", "2", "3", "4", "5", "6", "7", "8", "9"}
DigitSeq == <<"0", "1", "2", "3", "4", "5", "6", "7", "8", "9">>
NL == "\n"

IsDigit(c) == c \in Digits
DigitVal(c) == CHOOSE n \in 0..9 : DigitSeq[n + 1] = c
DigitChar(n) == DigitSeq[n + 1]

\* value of the decimal digits s[from..to]
RECURSIVE NumVal(_, _, _)
NumVal(s, from, to) ==
    IF to < from THEN 0
    ELSE 10 * NumVal(s, from, to - 1) + DigitVal(s[to])

\* n written with exactly w decimal digits, zero padded
RECURSIVE Pad(_, _)
Pad(n, w) == IF w = 0 THEN <<>> ELSE Pad(n \div 10, w - 1) \o <<DigitChar(n % 10)>>

----------------------------------------------------------------------------
(* is_date_format: re.match(r'\d{2}/\d{2}/\d{4}$', str(x)) *)

\* the ten pattern items \d \d / \d \d / \d \d \d \d match s[at..at+9]
PatternAt(s, at) ==
    /\ at + 9 <= Len(s)
    /\ \A k \in {0, 1, 3, 4, 6, 7, 8, 9} : IsDigit(s[at + k])
    /\ s[at + 2] = "/"
    /\ s[at + 5] = "/"

\* '$' without re.MULTILINE at position p (the next character to read):
\* the end of the text, or just before a newline that ends the text
DollarAt(s, p) ==
    \/ p = Len(s) + 1
    \/ p = Len(s) /\ s[p] = NL

\* re.search: the pattern may start anywhere
ReSearch(s) == \E at \in 1..Len(s) : PatternAt(s, at) /\ DollarAt(s, at + 10)

\* re.match: the pattern must start at the first character
ReMatch(s) == PatternAt(s, 1) /\ DollarAt(s, 11)

\* str(x) of a spreadsheet cell
NoDate == [y |-> 0, m |-> 0, d |-> 0]
TextCell(t) == [kind |-> "text", text |-> t, date |-> NoDate]
DateCell(dt) == [kind |-> "datetime", text |-> <<>>, date |-> dt]
NaNCell == [kind |-> "nan", text |-> <<>>, date |-> NoDate]

Str(x) ==
    CASE x.kind = "text" -> x.text
      [] x.kind = "datetime" ->
            Pad(x.date.y, 4) \o <<"-">> \o Pad(x.date.m, 2) \o <<"-">>
            \o Pad(x.date.d, 2) \o <<" ", "0", "0", ":", "0", "0", ":", "0", "0">>
      [] x.kind = "nan" -> <<"n", "a", "n">>

is_date_format(x) == ReMatch(Str(x))

----------------------------------------------------------------------------
(* pd.to_datetime(..., format='%m/%d/%Y') and strftime('%m/%d/%Y') *)

IsLeap(y) == (y % 4 = 0 /\ y % 100 # 0) \/ y % 400 = 0

DaysInMonth(y, m) ==
    CASE m \in {1, 3, 5, 7, 8, 10, 12} -> 31
      [] m \in {4, 6, 9, 11} -> 30
      [] m = 2 -> IF IsLeap(y) THEN 29 ELSE 28
      [] OTHER -> 0

\* faulty variant: only the ranges of the fields are checked, not the calendar
ValidCalendarDateFieldRangeOnly(dt) ==
    /\ dt.y >= 1
    /\ dt.m \in 1..12
    /\ dt.d \in 1..31

ValidCalendarDate(dt) ==
    /\ dt.y >= 1
    /\ dt.m \in 1..12
    /\ dt.d \in 1..DaysInMonth(dt.y, dt.m)

\* whether strptime accepts text s: the whole text must be consumed by the
\* format, and the fields must name a real day.  Applied only to texts
\* that passed is_date_format.
Parses(s) ==
    /\ Len(s) = 10
    /\ PatternAt(s, 1)
    /\ ValidCalendarDate([y |-> NumVal(s, 7, 10), m |-> NumVal(s, 1, 2),
                          d |-> NumVal(s, 4, 5)])

ParseDate(s) ==
    [y |-> NumVal(s, 7, 10), m |-> NumVal(s, 1, 2), d |-> NumVal(s, 4, 5)]

Strftime(dt) == Pad(dt.m, 2) \o <<"/">> \o Pad(dt.d, 2) \o <<"/">> \o Pad(dt.y, 4)

DateLE(a, b) ==
    \/ a.y < b.y
    \/ a.y = b.y /\ a.m < b.m
    \/ a.y = b.y /\ a.m = b.m /\ a.d <= b.d

----------------------------------------------------------------------------
(* Numbers.  A value is NaN, +inf, or num/den + sgn * sqrt(rnum/rden)     *)
(* with den > 0, rden > 0, rnum >= 0 and sgn in {-1, 0, 1}.               *)

NaN == [kind |-> "nan", num |-> 0, den |-> 1, sgn |-> 0, rnum |-> 0, rden |-> 1]
Inf == [kind |-> "inf", num |-> 0, den |-> 1, sgn |-> 0, rnum |-> 0, rden |-> 1]
Rat(n, d) == [kind |-> "real", num |-> n, den |-> d, sgn |-> 0, rnum |-> 0, rden |-> 1]
Root(n, d) == [kind |-> "real", num |-> 0, den |-> 1, sgn |-> 1, rnum |-> n, rden |-> d]

IsNaN(x) == x.kind = "nan"
IsInf(x) == x.kind = "inf"
IsFinite(x) == x.kind = "real"

\* a - b and a + b for a rational a and a root b; NaN propagates
Minus(a, b) ==
    IF IsNaN(a) \/ IsNaN(b) THEN NaN
    ELSE [kind |-> "real", num |-> a.num, den |-> a.den,
          sgn |-> -b.sgn, rnum |-> b.rnum, rden |-> b.rden]

Plus(a, b) ==
    IF IsNaN(a) \/ IsNaN(b) THEN NaN
    ELSE [kind |-> "real", num |-> a.num, den |-> a.den,
          sgn |-> b.sgn, rnum |-> b.rnum, rden |-> b.rden]

\* v < x and v > x for an integer v; every comparison with NaN is false.
\* With D = v*den - num, v - num/den = D/den is compared with
\* sgn*sqrt(rnum/rden) by squaring.
LessThan(v, x) ==
    LET D == v * x.den - x.num IN
    IF IsNaN(x) THEN FALSE
    ELSE IF IsInf(x) THEN TRUE
    ELSE IF x.sgn = 0 THEN D < 0
    ELSE IF x.sgn = 1 THEN D < 0 \/ D * D * x.rden < x.rnum * x.den * x.den
    ELSE D < 0 /\ D * D * x.rden > x.rnum * x.den * x.den

GreaterThan(v, x) ==
    LET D == v * x.den - x.num IN
    IF IsNaN(x) THEN FALSE
    ELSE IF IsInf(x) THEN FALSE
    ELSE IF x.sgn = 0 THEN D > 0
    ELSE IF x.sgn = 1 THEN D > 0 /\ D * D * x.rden > x.rnum * x.den * x.den
    ELSE D > 0 \/ D * D * x.rden < x.rnum * x.den * x.den

\* faulty variants: a value on the bound counts as outside
LessOrEqual(v, x) == LessThan(v, x) \/ (IsFinite(x) /\ ~GreaterThan(v, x))
GreaterOrEqual(v, x) == GreaterThan(v, x) \/ (IsFinite(x) /\ ~LessThan(v, x))

----------------------------------------------------------------------------
(* Series.describe() of a column of integers, and the typical range *)

RECURSIVE Sum(_)
Sum(col) == IF col = <<>> THEN 0 ELSE Head(col) + Sum(Tail(col))

Min(col) == CHOOSE v \in {col[i] : i \in DOMAIN col} : \A i \in DOMAIN col : v <= col[i]
Max(col) == CHOOSE v \in {col[i] : i \in DOMAIN col} : \A i \in DOMAIN col : v >= col[i]

\* the column in ascending order
RECURSIVE Sorted(_)
Sorted(col) ==
    IF col = <<>> THEN <<>>
    ELSE LET k == CHOOSE i \in DOMAIN col : \A j \in DOMAIN col : col[i] <= col[j]
         IN <<col[k]>> \o Sorted(SubSeq(col, 1, k - 1) \o SubSeq(col, k + 1, Len(col)))

\* the 50% quantile with linear interpolation
Median(col) ==
    LET n == Len(col)
        s == Sorted(col)
    IN IF n % 2 = 1 THEN Rat(s[(n + 1) \div 2], 1)
       ELSE Rat(s[n \div 2] + s[n \div 2 + 1], 2)

\* sample standard deviation (ddof = 1): the mean S/n, then the squared
\* deviations (v - S/n)^2 = (n*v - S)^2 / n^2 summed and divided by n - 1
Std(col) ==
    LET n == Len(col)
        S == Sum(col)
    IN IF n < 2 THEN NaN
       ELSE Root(Sum([i \in 1..n |-> (n * col[i] - S) * (n * col[i] - S)]),
                 n * n * (n - 1))

Describe(col) ==
    [count |-> Len(col),
     mean |-> Rat(Sum(col), Len(col)),
     std |-> Std(col),
     min |-> Min(col),
     median |-> Median(col),
     max |-> Max(col)]

\* faulty variant: the bounds themselves count as outside
DaysOutsideInclusive(col, lower, upper) ==
    Cardinality({i \in DOMAIN col : LessOrEqual(col[i], lower) \/ GreaterOrEqual(col[i], upper)})

\* len(df[(df[c] < lower_range) | (df[c] > upper_range)])
DaysOutside(col, lower, upper) ==
    Cardinality({i \in DOMAIN col : LessThan(col[i], lower) \/ GreaterThan(col[i], upper)})

\* the values one statistics block displays
Panel(name, col) ==
    LET stats == Describe(col)
        lower_range == Minus(stats.mean, stats.std)
        upper_range == Plus(stats.mean, stats.std)
    IN [name |-> name,
        stats |-> stats,
        lower_range |-> lower_range,
        upper_range |-> upper_range,
        days_outside |-> DaysOutside(col, lower_range, upper_range),
        total_days |-> Len(col)]

NoPanel == [name |-> "unset"]

----------------------------------------------------------------------------
(* (df[part] / df['Calls Peak']).mean() * 100 *)

RECURSIVE GCD(_, _)
GCD(a, b) == IF b = 0 THEN a ELSE GCD(b, a % b)

\* the fraction n/d in lowest terms
Fraction(n, d) == LET g == GCD(n, d) IN Rat(n \div g, d \div g)

\* element-wise division of non-negative integers as floats
Divide(a, b) ==
    IF b # 0 THEN Fraction(a, b)
    ELSE IF a = 0 THEN NaN
    ELSE Inf

RECURSIVE SumRat(_)
SumRat(s) ==
    IF s = <<>> THEN Rat(0, 1)
    ELSE LET h == Head(s)
             t == SumRat(Tail(s))
         IN Fraction(h.num * t.den + t.num * h.den, h.den * t.den)

\* faulty variant: mean(skipna=False), one NaN entry makes the mean NaN
SeriesMeanKeepNaN(s) ==
    LET total == SumRat(SelectSeq(s, IsFinite)) IN
    IF s = <<>> \/ \E i \in DOMAIN s : IsNaN(s[i]) THEN NaN
    ELSE IF \E i \in DOMAIN s : IsInf(s[i]) THEN Inf
    ELSE Fraction(total.num, total.den * Len(s))

\* Series.mean() with skipna=True: NaN entries are left out; an empty
\* remainder gives NaN; +inf among the remainder gives +inf
SeriesMean(s) ==
    LET kept == SelectSeq(s, LAMBDA x : ~IsNaN(x))
        total == SumRat(kept)
    IN IF kept = <<>> THEN NaN
       ELSE IF \E i \in DOMAIN kept : IsInf(kept[i]) THEN Inf
       ELSE Fraction(total.num, total.den * Len(kept))

Times100(x) == IF IsFinite(x) THEN Fraction(100 * x.num, x.den) ELSE x

RatioPercent(part, total) ==
    Times100(SeriesMean([i \in DOMAIN part |-> Divide(part[i], total[i])]))

NoRatio == [inbound_ratio |-> NaN, outbound_ratio |-> NaN, shown |-> FALSE]

----------------------------------------------------------------------------
(* Spreadsheets *)

ColDate == "Date"
ColAgents == "Agents Peak"
ColCalls == "Calls Peak"
ColInbound == "Calls Peak (Inbound)"
ColOutbound == "Calls Peak (Outbound)"
AllColumns == {ColDate, ColAgents, ColCalls, ColInbound, ColOutbound}

Row(cell, agents, calls, inbound, outbound) ==
    (ColDate :> cell) @@ (ColAgents :> agents) @@ (ColCalls :> calls)
    @@ (ColInbound :> inbound) @@ (ColOutbound :> outbound)

Restrict(row, cols) == [c \in cols |-> row[c]]

SeqsUpTo(S, lo, hi) == UNION {[1..n -> S] : n \in lo..hi}

Sheet(cols, rows) ==
    [exists |-> TRUE, columns |-> cols,
     rows |-> [i \in DOMAIN rows |-> Restrict(rows[i], cols)]]

MissingFile == [exists |-> FALSE, columns |-> {}, rows |-> <<>>]

\* date texts
D0101 == <<"0", "1", "/", "0", "1", "/", "2", "0", "2", "4">>
D0102 == <<"0", "1", "/", "0", "2", "/", "2", "0", "2", "4">>
D0230 == <<"0", "2", "/", "3", "0", "/", "2", "0", "2", "4">>
BadRow == <<"b", "a", "d", "-", "r", "o", "w">>
Note0101 == <<"n", "o", "t", "e", " ">> \o D0101

\* Error-handling inputs: rows with a valid date, a date that is not on the
\* calendar or a non-date text, with the numbers of the end-to-end scenario;
\* the full schema, or one column missing; or no file at all
PipelineCells == {TextCell(D0101), TextCell(D0102), TextCell(D0230), TextCell(BadRow)}
PipelineRows ==
    {Row(c, n[1], n[2], n[3], n[4]) :
        c \in PipelineCells,
        n \in {<<50, 100, 60, 40>>, <<70, 120, 70, 50>>, <<999, 999, 999, 999>>}}
PipelineFiles ==
    {Sheet(AllColumns, rows) : rows \in SeqsUpTo(PipelineRows, 0, MaxRows)}
    \cup {Sheet(AllColumns \ {c}, rows) :
            c \in AllColumns, rows \in SeqsUpTo(PipelineRows, 0, MaxRowsPartial)}
    \cup {MissingFile}

\* Statistics inputs: valid rows with v agents, v*v inbound calls and one
\* outbound call, v*v + 1 calls in total, for a base value v
StatRow(v) == Row(TextCell(D0101), v, v * v + 1, v * v, 1)
StatsFiles ==
    {Sheet(AllColumns, rows) :
        rows \in SeqsUpTo({StatRow(v) : v \in 0..MaxStatVal}, 1, MaxStatRows)}

\* Ratio inputs: valid rows with every total, inbound and outbound value
RatioRows ==
    {Row(TextCell(D0101), 1, c, i, o) : c \in 0..MaxTotal, i \in 0..MaxPart, o \in 0..MaxPart}
RatioFiles ==
    {Sheet(AllColumns, rows) : rows \in SeqsUpTo(RatioRows, 1, MaxRatioRows)}

\* Validator inputs: one row whose Date cell is a date text with one
\* character replaced, cut short, or with characters before and after it;
\* a cell Excel stores as a date; an empty cell
Alphabet == {"1", "/", NL, "a", " "}
Affixes == SeqsUpTo(Alphabet, 0, MaxAffix)
Replaced(s, k, c) == [i \in DOMAIN s |-> IF i = k THEN c ELSE s[i]]
ValidatorTexts ==
    {p \o Replaced(D0101, k, c) \o q :
        p \in Affixes, q \in Affixes, k \in DOMAIN D0101, c \in Alphabet}
    \cup {SubSeq(D0101, 1, k) : k \in 0..Len(D0101)}
    \cup {D0102, D0230, BadRow, Note0101}
ValidatorCells ==
    {TextCell(t) : t \in ValidatorTexts}
    \cup {DateCell([y |-> 2024, m |-> 1, d |-> 1]), NaNCell}
ValidatorFiles ==
    {Sheet(AllColumns, <<Row(c, 50, 100, 60, 40)>>) : c \in ValidatorCells}

----------------------------------------------------------------------------
(* The run *)

Column(frame, c) == [i \in DOMAIN frame.rows |-> frame.rows[i][c]]

NoFrame == [columns |-> {}, rows |-> <<>>]

\* before a run has looked at its environment
Unread == MissingFile

Init ==
    /\ openpyxl = "unchecked"
    /\ file = Unread
    /\ pc = "start"
    /\ exc = "none"
    /\ page = <<>>
    /\ df = NoFrame
    /\ min_date = <<>>
    /\ max_date = <<>>
    /\ agent_panel = NoPanel
    /\ call_panels = <<>>
    /\ ratio_panel = NoRatio

\* faulty variant: except ValueError
HandlerCatchesValueErrorOnly(e) == e = "ValueError"

\* except Exception: every exception the try block can raise is an Exception
HandlerCatches(e) == e \in {"FileNotFoundError", "KeyError", "ValueError"}

\* an exception raised at the current statement: the handler shows the error
\* and the format hints and main() returns; an exception it does not catch
\* leaves main()
Raise(e) ==
    /\ exc' = e
    /\ IF HandlerCatches(e)
       THEN /\ page' = page \o <<"error", "hint_header", "hint_dates", "hint_numeric">>
            /\ pc' = "done"
       ELSE /\ page' = page
            /\ pc' = "crashed"

\* lines 22-24: the title, then check_openpyxl(), which stops the script
Start ==
    /\ pc = "start"
    /\ openpyxl' \in {"found", "missing"}
    /\ IF openpyxl' = "found"
       THEN /\ page' = page \o <<"title">>
            /\ pc' = "load"
       ELSE /\ page' = page \o <<"title", "error_openpyxl">>
            /\ pc' = "stopped"
    /\ UNCHANGED <<file, exc, df, min_date, max_date,
                   agent_panel, call_panels, ratio_panel>>

\* line 29: pd.read_excel of whatever peaks.xlsx is at that moment
LoadFile(files) ==
    /\ pc = "load"
    /\ file' \in files
    /\ IF file'.exists
       THEN /\ df' = [columns |-> file'.columns, rows |-> file'.rows]
            /\ pc' = "filter"
            /\ UNCHANGED <<exc, page>>
       ELSE /\ Raise("FileNotFoundError")
            /\ UNCHANGED df
    /\ UNCHANGED <<openpyxl, min_date, max_date,
                   agent_panel, call_panels, ratio_panel>>

\* faulty variant: the rows whose mask entry is false
RECURSIVE BoolIndexInverted(_, _)
BoolIndexInverted(rows, mask) ==
    IF rows = <<>> THEN <<>>
    ELSE (IF Head(mask) THEN <<>> ELSE <<Head(rows)>>)
         \o BoolIndexInverted(Tail(rows), Tail(mask))

\* df[mask]: the rows whose mask entry is true, in order
RECURSIVE BoolIndex(_, _)
BoolIndex(rows, mask) ==
    IF rows = <<>> THEN <<>>
    ELSE (IF Head(mask) THEN <<Head(rows)>> ELSE <<>>) \o BoolIndex(Tail(rows), Tail(mask))

\* line 32: df = df[df['Date'].apply(is_date_format)].copy()
\* With no rows at all, apply() yields an empty Series without a boolean
\* dtype and df[...] may select columns instead of rows; both results are
\* allowed for.
FilterRows ==
    /\ pc = "filter"
    /\ IF ColDate \notin df.columns
       THEN /\ Raise("KeyError")
            /\ UNCHANGED df
       ELSE /\ \/ df' = [df EXCEPT !.rows =
                            BoolIndex(df.rows,
                                      [i \in DOMAIN df.rows |-> is_date_format(df.rows[i][ColDate])])]
               \/ /\ df.rows = <<>>
                  /\ df' = NoFrame
            /\ pc' = "to_datetime"
            /\ UNCHANGED <<exc, page>>
    /\ UNCHANGED <<openpyxl, file, min_date, max_date,
                   agent_panel, call_panels, ratio_panel>>

\* line 33: df['Date'] = pd.to_datetime(df['Date'], format='%m/%d/%Y')
ToDatetime ==
    /\ pc = "to_datetime"
    /\ IF ColDate \notin df.columns
       THEN /\ Raise("KeyError")
            /\ UNCHANGED df
       ELSE IF \E i \in DOMAIN df.rows : ~Parses(Str(df.rows[i][ColDate]))
       THEN /\ Raise("ValueError")
            /\ UNCHANGED df
       ELSE /\ df' = [df EXCEPT !.rows =
                        [i \in DOMAIN df.rows |->
                            [df.rows[i] EXCEPT ![ColDate] = DateCell(ParseDate(Str(@)))]]]
            /\ pc' = "date_range"
            /\ UNCHANGED <<exc, page>>
    /\ UNCHANGED <<openpyxl, file, min_date, max_date,
                   agent_panel, call_panels, ratio_panel>>

MinDate(dates) == CHOOSE a \in {dates[i] : i \in DOMAIN dates} : \A i \in DOMAIN dates : DateLE(a, dates[i])
MaxDate(dates) == CHOOSE a \in {dates[i] : i \in DOMAIN dates} : \A i \in DOMAIN dates : DateLE(dates[i], a)

\* lines 36-59: min and max of the dates formatted with strftime, then the
\* Data Information section.  min() of no dates is NaT, whose strftime
\* raises ValueError.
DateRange ==
    /\ pc = "date_range"
    /\ IF df.rows = <<>>
       THEN /\ Raise("ValueError")
            /\ UNCHANGED <<min_date, max_date>>
       ELSE LET dates == [i \in DOMAIN df.rows |-> df.rows[i][ColDate].date] IN
            /\ min_date' = Strftime(MinDate(dates))
            /\ max_date' = Strftime(MaxDate(dates))
            /\ page' = page \o <<"data_information">>
            /\ pc' = "empty_check"
            /\ UNCHANGED exc
    /\ UNCHANGED <<openpyxl, file, df, agent_panel, call_panels, ratio_panel>>

\* lines 62-68: the empty check, then the data table
EmptyCheck ==
    /\ pc = "empty_check"
    /\ IF df.rows = <<>>
       THEN /\ page' = page \o <<"error_empty">>
            /\ pc' = "done"
       ELSE /\ page' = page \o <<"table">>
            /\ pc' = "agents_chart"
    /\ UNCHANGED <<openpyxl, file, exc, df, min_date, max_date,
                   agent_panel, call_panels, ratio_panel>>

\* lines 73-124: the agent chart.  Its encodings name their fields with an
\* explicit type, so building and sending the chart does not look the
\* fields up in df.
AgentsChart ==
    /\ pc = "agents_chart"
    /\ page' = page \o <<"agents_chart">>
    /\ pc' = "agent_stats"
    /\ UNCHANGED <<openpyxl, file, exc, df, min_date, max_date,
                   agent_panel, call_panels, ratio_panel>>

\* lines 127-160: Agent Peak Statistics
AgentStats ==
    /\ pc = "agent_stats"
    /\ IF ColAgents \notin df.columns
       THEN /\ Raise("KeyError")
            /\ UNCHANGED agent_panel
       ELSE /\ agent_panel' = Panel(ColAgents, Column(df, ColAgents))
            /\ page' = page \o <<"agent_stats">>
            /\ pc' = "calls_chart"
            /\ UNCHANGED exc
    /\ UNCHANGED <<openpyxl, file, df, min_date, max_date, call_panels, ratio_panel>>

\* the columns of the call statistics loop, in dictionary order
CallTypes == <<ColCalls, ColInbound, ColOutbound>>

\* lines 163-223: pd.melt over the three call columns, then the call chart
CallsChart ==
    /\ pc = "calls_chart"
    /\ IF \E k \in DOMAIN CallTypes : CallTypes[k] \notin df.columns
       THEN Raise("KeyError")
       ELSE /\ page' = page \o <<"calls_chart">>
            /\ pc' = "call_stats"
            /\ UNCHANGED exc
    /\ UNCHANGED <<openpyxl, file, df, min_date, max_date,
                   agent_panel, call_panels, ratio_panel>>

\* lines 235-283: one pass of the loop over the call types; the pass for
\* 'Calls Peak' also shows the Call Type Distribution block
CallStats ==
    /\ pc = "call_stats"
    /\ LET c == CallTypes[Len(call_panels) + 1] IN
        /\ call_panels' = Append(call_panels, Panel(c, Column(df, c)))
        /\ IF c = ColCalls
           THEN /\ ratio_panel' =
                    [inbound_ratio |-> RatioPercent(Column(df, ColInbound), Column(df, ColCalls)),
                     outbound_ratio |-> RatioPercent(Column(df, ColOutbound), Column(df, ColCalls)),
                     shown |-> TRUE]
                /\ page' = page \o <<"call_stats", "ratio">>
           ELSE /\ ratio_panel' = ratio_panel
                /\ page' = page \o <<"call_stats">>
    /\ pc' = IF Len(call_panels) + 1 = Len(CallTypes) THEN "done" ELSE "call_stats"
    /\ UNCHANGED <<openpyxl, file, exc, df, min_date, max_date, agent_panel>>

\* line 293: the run is over; the next interaction runs main() again from
\* the top, and nothing of the finished run is kept
Rerun ==
    /\ pc \in {"done", "stopped", "crashed"}
    /\ openpyxl' = "unchecked"
    /\ file' = Unread
    /\ pc' = "start"
    /\ exc' = "none"
    /\ page' = <<>>
    /\ df' = NoFrame
    /\ min_date' = <<>>
    /\ max_date' = <<>>
    /\ agent_panel' = NoPanel
    /\ call_panels' = <<>>
    /\ ratio_panel' = NoRatio

\* a run over the spreadsheets in files
Run(files) ==
    \/ Start
    \/ LoadFile(files)
    \/ FilterRows
    \/ ToDatetime
    \/ DateRange
    \/ EmptyCheck
    \/ AgentsChart
    \/ AgentStats
    \/ CallsChart
    \/ CallStats
    \/ Rerun

Next == Run(PipelineFiles)
Spec == Init /\ [][Next]_vars

NextStats == Run(StatsFiles)
SpecStats == Init /\ [][NextStats]_vars

NextRatio == Run(RatioFiles)
SpecRatio == Init /\ [][NextRatio]_vars

NextValidator == Run(ValidatorFiles)
SpecValidator == Init /\ [][NextValidator]_vars

----------------------------------------------------------------------------
(* Properties *)

Shown(x) == \E k \in DOMAIN page : page[k] = x

DataShown ==
    \/ Shown("table")
    \/ Shown("agents_chart")
    \/ Shown("agent_stats")
    \/ Shown("calls_chart")
    \/ Shown("call_stats")
    \/ Shown("ratio")

\* the run has read a spreadsheet that has a Date column
ReadWithDates == file.exists /\ ColDate \in file.columns

DateText(row) == Str(row[ColDate])
Passes(row) == is_date_format(row[ColDate])

\* exactly dd/dd/dddd, nothing before or after
ExactShape(s) ==
    /\ Len(s) = 10
    /\ \A k \in {1, 2, 4, 5, 7, 8, 9, 10} : s[k] \in Digits
    /\ s[3] = "/"
    /\ s[6] = "/"

\* a text of the exact shape names a day of the calendar
MonthLengths == <<31, 28, 31, 30, 31, 30, 31, 31, 30, 31, 30, 31>>
OnCalendar(s) ==
    LET m == NumVal(s, 1, 2)
        d == NumVal(s, 4, 5)
        y == NumVal(s, 7, 10)
        leapDay == m = 2 /\ d = 29 /\ y % 4 = 0 /\ (y % 100 # 0 \/ y % 400 = 0)
    IN /\ y >= 1
       /\ m >= 1 /\ m <= 12
       /\ d >= 1
       /\ (d <= MonthLengths[m] \/ leapDay)

\* C1: whenever a run has read a spreadsheet none of whose rows passes the
\* Row Validator, it ends by showing the empty-dataset message and not the
\* generic error, and shows no table, chart or statistics.
C1_EmptyDatasetMessage ==
    (/\ pc = "done"
     /\ ReadWithDates
     /\ \A i \in DOMAIN file.rows : ~Passes(file.rows[i]))
    => (Shown("error_empty") /\ ~Shown("error") /\ ~DataShown)

\* C2: a run over valid rows that lack a required numeric column never
\* shows a table, chart or statistics, and ends with the error message.
C2_MissingColumnShowsNothing ==
    (/\ ReadWithDates
     /\ file.columns # AllColumns
     /\ file.rows # <<>>
     /\ \A i \in DOMAIN file.rows : ExactShape(DateText(file.rows[i])) /\ OnCalendar(DateText(file.rows[i])))
    => (~DataShown /\ (pc = "done" => Shown("error")))

\* C3: when some row passes the Row Validator but its date is not on the
\* calendar, the run never shows the data information, a table, a chart or
\* statistics, and it ends with the error message, whatever the other rows.
C3_UncalendarDateAborts ==
    (/\ ReadWithDates
     /\ \E i \in DOMAIN file.rows :
            /\ Passes(file.rows[i])
            /\ ExactShape(DateText(file.rows[i]))
            /\ ~OnCalendar(DateText(file.rows[i])))
    => (/\ ~DataShown
        /\ ~Shown("data_information")
        /\ ~Shown("error_empty")
        /\ pc = "done" => (exc = "ValueError" /\ Shown("error") /\ Shown("hint_dates")))

C3_Witness ==
    /\ pc = "done"
    /\ Shown("error")
    /\ ReadWithDates
    /\ Len(file.rows) = 3
    /\ DateText(file.rows[1]) = D0101
    /\ DateText(file.rows[2]) = D0230
    /\ DateText(file.rows[3]) = D0102

ErrorAndHints == <<"error", "hint_header", "hint_dates", "hint_numeric">>

\* C4: no run ends with an uncaught exception; every exception raised in a
\* run ends it with the error message followed by the hints as the last
\* things on the page, and only an exception puts the error message there;
\* a run starts with nothing left of the run before it.
C4_FailuresCaught ==
    /\ pc # "crashed"
    /\ exc # "none" =>
        (/\ pc = "done"
         /\ Len(page) >= 4
         /\ SubSeq(page, Len(page) - 3, Len(page)) = ErrorAndHints)
    /\ Shown("error") => exc # "none"
    /\ (pc = "done" /\ ~file.exists) => exc = "FileNotFoundError"
    /\ pc = "start" =>
        (/\ exc = "none" /\ page = <<>> /\ df = NoFrame /\ file = Unread
         /\ min_date = <<>> /\ max_date = <<>>
         /\ agent_panel = NoPanel /\ call_panels = <<>> /\ ratio_panel = NoRatio)

C4_Witness ==
    /\ pc = "done"
    /\ exc = "KeyError"
    /\ Shown("agent_stats")
    /\ Shown("error")

\* C5: a row is kept by the filter if and only if its Date text has exactly
\* the shape dd/dd/dddd.
C5_ExactShapeOnly ==
    (pc = "to_datetime" /\ ReadWithDates /\ Len(file.rows) = 1)
    => (df.rows # <<>> <=> ExactShape(DateText(file.rows[1])))

\* C6: the Dataset is the rows that pass is_date_format, in their original
\* order and with their numbers unchanged; dropping a row raises nothing and
\* shows nothing; the agent statistics are those of the kept rows only.
C6_DatasetIsValidSubsequence ==
    LET kept == SelectSeq(file.rows, Passes)
        agents == [i \in DOMAIN kept |-> kept[i][ColAgents]]
    IN
    /\ (pc = "to_datetime" /\ ColDate \in df.columns) =>
            (df.rows = kept /\ exc = "none" /\ page = <<"title">>)
    /\ (pc \in {"date_range", "empty_check", "agents_chart", "agent_stats",
                "calls_chart", "call_stats"} \/ (pc = "done" /\ Shown("data_information"))) =>
            /\ Len(df.rows) = Len(kept)
            /\ \A i \in DOMAIN kept : \A c \in df.columns \ {ColDate} :
                    df.rows[i][c] = kept[i][c]
            /\ \A i \in DOMAIN kept : Strftime(df.rows[i][ColDate].date) = DateText(kept[i])
    /\ agent_panel.name # "unset" =>
            /\ agent_panel.total_days = Len(kept)
            /\ agent_panel.stats.mean.num * Len(kept) = Sum(agents) * agent_panel.stats.mean.den
            /\ agent_panel.stats.min \in {agents[i] : i \in DOMAIN agents}
            /\ agent_panel.stats.max \in {agents[i] : i \in DOMAIN agents}
            /\ \A i \in DOMAIN agents :
                    agent_panel.stats.min <= agents[i] /\ agents[i] <= agent_panel.stats.max

\* the end-to-end scenario: two valid rows and the row ("bad-row", 999, ...)
C6_Witness ==
    /\ pc = "done"
    /\ exc = "none"
    /\ file.rows = <<Row(TextCell(D0101), 50, 100, 60, 40),
                     Row(TextCell(BadRow), 999, 999, 999, 999),
                     Row(TextCell(D0102), 70, 120, 70, 50)>>
    /\ Len(df.rows) = 2
    /\ agent_panel.stats.mean = Rat(120, 2)
    /\ agent_panel.stats.min = 50
    /\ agent_panel.stats.max = 70

\* product of t[i] over i in S, and the sum over i in S of
\* p[i] * (product of t[j] over the other j in S)
RECURSIVE ProductOver(_, _)
ProductOver(t, S) ==
    IF S = {} THEN 1
    ELSE LET i == CHOOSE k \in S : TRUE IN t[i] * ProductOver(t, S \ {i})

RECURSIVE CrossSum(_, _, _, _)
CrossSum(p, t, S, rest) ==
    IF rest = {} THEN 0
    ELSE LET i == CHOOSE k \in rest : TRUE
         IN p[i] * ProductOver(t, S \ {i}) + CrossSum(p, t, S, rest \ {i})

\* r is 100 times the average of p[i]/t[i] over the records i in S
IsPercentOver(r, p, t, S) ==
    /\ IsFinite(r)
    /\ r.sgn = 0
    /\ r.num * Cardinality(S) * ProductOver(t, S) = r.den * 100 * CrossSum(p, t, S, S)

\* C7 as stated: once the ratios are displayed for a Dataset with a record
\* whose Calls Peak is zero, no error was raised and both displayed ratios
\* are non-numeric, whatever that record's inbound and outbound values.
C7_ZeroTotalAlwaysNonNumeric ==
    (ratio_panel.shown /\ \E i \in DOMAIN df.rows : df.rows[i][ColCalls] = 0)
    => (/\ exc = "none"
        /\ ~IsFinite(ratio_panel.inbound_ratio)
        /\ ~IsFinite(ratio_panel.outbound_ratio))

\* the displayed ratio r of part column p against total column t: infinite
\* when a zero-total record has a non-zero part; otherwise the zero-total
\* records are left out of the average, which is NaN only when none remains
RatioAsAmended(r, p, t) ==
    LET nonzero == {i \in DOMAIN t : t[i] # 0} IN
    IF \E i \in DOMAIN t : t[i] = 0 /\ p[i] # 0 THEN IsInf(r)
    ELSE IF nonzero = {} THEN IsNaN(r)
    ELSE IsPercentOver(r, p, t, nonzero)

\* C7 as amended: the ratios are computed without a guard and without an
\* error.  A zero-total record with a non-zero inbound (outbound) value is
\* kept and makes the displayed inbound (outbound) ratio infinite; one whose
\* inbound (outbound) value is zero too gives NaN, which the average skips,
\* so the displayed ratio is the average over the remaining records and is
\* NaN only when no record remains.
C7_ZeroTotalRatio ==
    ratio_panel.shown =>
        /\ exc = "none"
        /\ RatioAsAmended(ratio_panel.inbound_ratio,
                          Column(df, ColInbound), Column(df, ColCalls))
        /\ RatioAsAmended(ratio_panel.outbound_ratio,
                          Column(df, ColOutbound), Column(df, ColCalls))

\* a zero-total record with no inbound calls beside a record with calls:
\* the displayed inbound ratio is a number
C7_Witness ==
    /\ ratio_panel.shown
    /\ Len(df.rows) = 2
    /\ df.rows[1][ColCalls] = 1 /\ df.rows[1][ColInbound] = 1
    /\ df.rows[2][ColCalls] = 0 /\ df.rows[2][ColInbound] = 0 /\ df.rows[2][ColOutbound] = 1
    /\ ratio_panel.inbound_ratio = Rat(100, 1)
    /\ IsInf(ratio_panel.outbound_ratio)

\* the statistics blocks displayed so far
PanelsShown ==
    (IF agent_panel.name # "unset" THEN {agent_panel} ELSE {})
    \cup {call_panels[k] : k \in DOMAIN call_panels}

\* C8: with fewer than 2 records every displayed standard deviation and
\* both bounds of every typical range are numbers.
C8_StdDefinedBelowTwoRecords ==
    \A P \in PanelsShown :
        P.total_days < 2 =>
            /\ IsFinite(P.stats.std)
            /\ IsFinite(P.lower_range)
            /\ IsFinite(P.upper_range)

\* the records of col whose squared distance from the mean exceeds the
\* sample variance (none when the variance is undefined), with distances
\* scaled by n and the variance by n*n*(n-1)
StrictlyOutside(col) ==
    LET n == Len(col)
        S == Sum(col)
        dev2(i) == (n * col[i] - S) * (n * col[i] - S)
    IN IF n < 2 THEN {}
       ELSE {i \in 1..n : (n - 1) * dev2(i) > Sum([j \in 1..n |-> dev2(j)])}

OnBound(col) ==
    LET n == Len(col)
        S == Sum(col)
        dev2(i) == (n * col[i] - S) * (n * col[i] - S)
    IN {i \in 1..n : n >= 2 /\ (n - 1) * dev2(i) = Sum([j \in 1..n |-> dev2(j)])}

\* C9: for every field, the displayed number of days outside the typical
\* range is the number of records strictly below mean - stddev or strictly
\* above mean + stddev, lies between 0 and the number of records, and is 0
\* when all values of the field are equal.
C9_DaysOutsideCount ==
    \A P \in PanelsShown :
        LET col == Column(df, P.name) IN
        /\ P.total_days = Len(col)
        /\ P.days_outside = Cardinality(StrictlyOutside(col))
        /\ 0 <= P.days_outside /\ P.days_outside <= P.total_days
        /\ (\A i, j \in DOMAIN col : col[i] = col[j]) => P.days_outside = 0

\* a field with records on the bounds of its range, none of them counted,
\* beside a field with a record outside its range
C9_Witness ==
    \E P, Q \in PanelsShown :
        /\ OnBound(Column(df, P.name)) # {}
        /\ P.days_outside = 0
        /\ Q.days_outside >= 1

\* text that ends with a date of the exact shape after a non-empty prefix
PrefixedDate(s) ==
    /\ Len(s) > 10
    /\ ExactShape(SubSeq(s, Len(s) - 9, Len(s)))

\* C10 as stated: a Date text made of a non-empty prefix followed by
\* dd/dd/dddd passes is_date_format and the row filter keeps its row.
C10_PrefixedDatePasses ==
    (/\ pc = "to_datetime" /\ ReadWithDates /\ Len(file.rows) = 1
     /\ PrefixedDate(DateText(file.rows[1])))
    => df.rows = file.rows

\* C10 as amended: the pattern is anchored at the start as well (re.match):
\* a Date text made of a non-empty prefix followed by dd/dd/dddd fails
\* is_date_format and the row filter drops its row.
C10_PrefixedDateDropped ==
    (/\ pc = "to_datetime" /\ ReadWithDates /\ Len(file.rows) = 1
     /\ PrefixedDate(DateText(file.rows[1])))
    => (df.columns = AllColumns /\ df.rows = <<>>)

C10_Witness ==
    /\ pc = "to_datetime"
    /\ Len(file.rows) = 1
    /\ DateText(file.rows[1]) = Note0101
    /\ df.columns = AllColumns
    /\ df.rows = <<>>

====
